---- MODULE Spec2Model ----
(***************************************************************************)
(* Model of the multi-instance supervisor of the ComfyUI portable          *)
(* installer: InstanceManager (core/instance_manager.py) driving one       *)
(* ServerManager handle per instance (core/server_manager.py), called from *)
(* concurrent worker threads.  Every step between two points where another *)
(* thread can observe or change shared state is one action.                *)
(***************************************************************************)
EXTENDS Integers, Sequences, FiniteSets, TLC

\* ---- program constants (config.py) ----
MAX_INSTANCES == 8
PORT_RANGE_START == 8188
PORT_RANGE_END == 8199
\* JobManager.MAX_JOBS (api/jobs.py)
MAX_JOBS == 100
\* LogHub.MAX_HISTORY (api/log_hub.py)
MAX_HISTORY == 2000

\* ---- bounds of the model ----
NumPorts == 9        \* ports an add_instance call may ask for
NumTargets == 1      \* ports whose instances are targets of start/stop/remove in Spec
MaxFillers == 1      \* instances on other ports in Spec
NumRegTargets == 2   \* ports whose instances are targets of remove in SpecRegistry
MaxSuffix == 2       \* largest _N suffix of an instance id
NumThreads == 2      \* concurrent caller threads
MaxProcs == 2        \* engine child processes running at one time
MaxOrphans == 1      \* InstanceState objects removed from the registry but still referenced
NumJobIds == 2       \* distinct values uuid4()[:8] takes in SpecJobs
MaxCreated == 2      \* create_job calls in SpecJobs
NumWorkers == 2      \* threads of the default executor
MaxTime == 3         \* largest value the clock reaches
MaxOver == 2         \* create_job calls beyond MAX_JOBS in SpecJobTable
MaxRun == 1          \* worker closures the executor picks up in SpecJobTable
MaxCollide == 1      \* table positions whose id a later uuid4()[:8] repeats in SpecJobTable
NumEmitters == 2     \* threads that call LogHub.emit
NumWs == 2           \* WebSocket connections opened
MaxEmits == 3        \* emit calls in SpecLog
MaxLimit == 1        \* largest limit= of a WebSocket connect
MaxOverHist == 2     \* emit calls beyond MAX_HISTORY in SpecHistory
MaxRecent == 4       \* emit calls in SpecRecent
MaxQueryLimit == 3   \* largest limit= of GET /api/logs
MaxBelowEnd == 2     \* ports below PORT_RANGE_END held by instances in SpecPorts
MaxAboveEnd == 1     \* ports above PORT_RANGE_END held by instances in SpecPorts
MaxBaseAbove == 2    \* largest base_port of next_available_port above PORT_RANGE_END
NumIdPorts == 2      \* ports of the configs whose ids are generated in SpecIds
MaxTaken == 3        \* largest _N suffix among the keys given to the id loop
MaxIds == 2          \* longest id list of a download or node-install request

Ports == PORT_RANGE_START .. (PORT_RANGE_START + NumPorts - 1)
TargetPorts == PORT_RANGE_START .. (PORT_RANGE_START + NumTargets - 1)
RegTargetPorts == PORT_RANGE_START .. (PORT_RANGE_START + NumRegTargets - 1)
Devs == {"0"}
\* the built-in engine directory (config.COMFYUI_DIR)
COMFYUI_DIR == "/comfyui"
Threads == 1 .. NumThreads
\* An InstanceState object is named by the slot of its instance id while it is
\* registered and by an orphan slot once it is popped but still referenced.
Slot(id) == (id.port - PORT_RANGE_START + 1)
            + NumPorts * (IF id.suffix = 0 THEN 0 ELSE id.suffix - 1)
OrphanSlots == (NumPorts * MaxSuffix + 1) .. (NumPorts * MaxSuffix + MaxOrphans)
None == 0

VARIABLES
    instances,   \* InstanceManager._instances: instance_id -> InstanceState object
    heap,        \* the InstanceState objects (with their ServerManager), by reference
    th           \* per caller thread: position in the call and its locals

\* JobManager and the worker closures of the job-opening handlers
VARIABLES
    _jobs,       \* JobManager._jobs: the dict's values (JobState references) in insertion order
    jobobj,      \* the JobState objects, by reference (numbered in creation order)
    run,         \* per JobState: position of the run() closure that was opened for it
    req,         \* the event-loop thread: position in a job-opening handler and its locals
    loop,        \* LogHub._loop: "open" or "closed"
    now,         \* last value returned by time.time()
    created      \* number of JobState objects created so far

\* LogHub, its broadcast tasks and the WebSocket handlers
VARIABLES
    history,     \* LogHub._history: deque(maxlen=MAX_HISTORY) of LogEntry
    emitted,     \* number of entries appended so far
    websockets,  \* LogHub._websockets
    ready,       \* broadcasts scheduled on the loop and not yet started, in order
    tasks,       \* _broadcast tasks that have started and not finished, by entry number
    em,          \* per emitting thread: position in emit and its entry
    conn         \* per WebSocket: position of its ws_logs handler, the client, frames received

instvars == <<instances, heap, th>>
jobvars == <<_jobs, jobobj, run, req, loop, now, created>>
logvars == <<history, emitted, websockets, ready, tasks, em, conn>>
\* the last response of GET /api/logs; the last call of next_available_port;
\* the settings file; the last call of save_settings
VARIABLES resp, found, settings, put, made, answered
appvars == <<resp, found, settings, put, made, answered>>

vars == <<instances, heap, th, _jobs, jobobj, run, req, loop, now, created,
          history, emitted, websockets, ready, tasks, em, conn, resp, found, settings, put, made, answered>>

\* ---- values ----
NoId == [dev |-> "", port |-> 0, suffix |-> 0]
NoCfg == [gpu_device |-> "", port |-> 0, vram_mode |-> ""]
\* InstanceConfig(gpu_device, gpu_label, port, host, vram_mode, extra_args):
\* the fields that the manager and the handlers read
InstanceConfig(d, p, v) == [gpu_device |-> d, port |-> p, vram_mode |-> v]
\* the keys of config.VRAM_MODES
VRAM_MODES == {"normal", "low", "none", "cpu"}
\* a request refused by the handler's own checks (ValueError -> 400)
InvalidRequest == [ok |-> FALSE, err |-> "ValueError", id |-> NoId]
NoRet == [ok |-> FALSE, err |-> "none", id |-> NoId]
BoolRet(b) == [ok |-> b, err |-> "", id |-> NoId]
IdRet(i) == [ok |-> TRUE, err |-> "", id |-> i]
LimitError == [ok |-> FALSE, err |-> "Maximum instances reached", id |-> NoId]
PortInUseError(holder) == [ok |-> FALSE, err |-> "Port already in use by instance", id |-> holder]

\* ServerManager.process is "none" (None), "alive" (a Popen whose child runs) or
\* "dead" (a Popen whose child has exited).  leaked counts the children spawned
\* through this handle that still run although self.process no longer refers
\* to them.
Blank == [pc |-> "idle", op |-> "none", id |-> NoId, cfg |-> NoCfg, ref |-> None,
          todo |-> {}, ok |-> FALSE, all_ok |-> TRUE, ret |-> NoRet, sup |-> FALSE, msg |-> "none",
          onloop |-> FALSE]

\* where a thread is spawning a child (start_server, Popen), polling its
\* readiness, or killing a process tree and waiting for its exit (stop_server)
Blocking == {"start_spawn", "start_wait", "stop_kill"}

\* InstanceState(instance_id, config, server=ServerManager()), status "stopped"
InstanceState(i, cfg) == [instance_id |-> i, config |-> cfg, status |-> "stopped",
                          process |-> "none", leaked |-> 0]

\* ---- InstanceManager._make_id and the unique-id loop ----
_make_id(cfg) == [dev |-> cfg.gpu_device, port |-> cfg.port, suffix |-> 0]

RECURSIVE UniqueId(_, _, _)
UniqueId(insts, base, counter) ==
    LET cand == IF counter = 1 THEN base ELSE [base EXCEPT !.suffix = counter]
    IN IF cand \in DOMAIN insts THEN UniqueId(insts, base, counter + 1) ELSE cand

\* ---- ServerManager.is_running ----
is_running(hp, o) == hp[o].process = "alive"

\* live children spawned through the handle of object o
LiveChildren(hp, o) == (IF hp[o].process = "alive" THEN 1 ELSE 0) + hp[o].leaked

\* ---- add_instance guards ----
\* (variant: the limit test lets one instance too many in)
LimitReached_OffByOne(insts) == Cardinality(DOMAIN insts) > MAX_INSTANCES

\* (variant: the limit test refuses the last free place)
LimitReached_Early(insts) == Cardinality(DOMAIN insts) >= MAX_INSTANCES - 1

\* (variant: the port collision loop finds nothing)
PortHolders_NoCheck(insts, hp, port) == {}

LimitReached(insts) == Cardinality(DOMAIN insts) >= MAX_INSTANCES

PortHolders(insts, hp, port) == {k \in DOMAIN insts : hp[insts[k]].config.port = port}

\* ---- reference bookkeeping: heap holds the objects that can still be reached ----
\* (an object whose handle still has a live child is kept, to account for the child)
Reachable(i2, h2, t2) ==
    {i2[k] : k \in DOMAIN i2}
    \cup {t2[t].ref : t \in Threads}
    \cup UNION {t2[t].todo : t \in Threads}
    \cup {o \in DOMAIN h2 : h2[o].process = "alive" \/ h2[o].leaked > 0}

CommitInst(i2, h2, t2) ==
    LET live == Reachable(i2, h2, t2)
    IN /\ instances' = i2
       /\ heap' = [o \in (live \cap DOMAIN h2) |-> h2[o]]
       /\ th' = t2

Commit(i2, h2, t2) ==
    /\ CommitInst(i2, h2, t2)
    /\ UNCHANGED <<jobvars, logvars, appvars>>

FreeOrphanSlots == OrphanSlots \ DOMAIN heap
Min(S) == CHOOSE x \in S : \A y \in S : x <= y

UsedPorts == {heap[instances[k]].config.port : k \in DOMAIN instances}

\* Ports an add_instance call is tried with: every target port, every port in
\* use, and the lowest unused port above the targets (instances that are never
\* the target of another call are interchangeable).
AddPorts(targets, maxFill) ==
    LET rest == (Ports \ targets) \ UsedPorts
    IN targets \cup UsedPorts
       \cup (IF rest # {} /\ Cardinality(UsedPorts \ targets) < maxFill
             THEN {Min(rest)} ELSE {})

Ids(ports) == {_make_id(InstanceConfig(d, p, "normal")) : d \in Devs, p \in ports}

\* the handler thread with no job-opening handler in progress
IdleReq == [pc |-> "idle", job |-> None, completed |-> << >>]

Emitters == 1 .. NumEmitters
WsIds == 1 .. NumWs
\* LogEntry(tag, message); n numbers the entries in the order of their append
LogEntry(n, tag) == [n |-> n, tag |-> tag]
NoEntry == LogEntry(0, "")
\* a thread that is not inside emit
EmIdle == [pc |-> "idle", entry |-> NoEntry]
\* a WebSocket that has not connected
NoConn == [pc |-> "none", client |-> "none", snap |-> << >>, recv |-> << >>, since |-> 0]

\* ---- settings.json (config.py lines 165-183) ----
\* Python values of the settings: None, a str, a list of str
PyNone == [type |-> "NoneType", v |-> << >>]
PyStr(x) == [type |-> "str", v |-> <<x>>]
PyList(q) == [type |-> "list", v |-> q]

\* json.dumps / json.loads of one value: null, a string, an array of strings
dumps(x) == [json |-> CASE x.type = "NoneType" -> "null"
                        [] x.type = "str" -> "string"
                        [] x.type = "list" -> "array",
             v |-> x.v]
loads(j) == [type |-> CASE j.json = "null" -> "NoneType"
                        [] j.json = "string" -> "str"
                        [] j.json = "array" -> "list",
             v |-> j.v]

\* SETTINGS_FILE does not exist
NoFile == [exists |-> FALSE, obj |-> << >>]
\* no save_settings call made yet
NoPut == [data |-> << >>, old |-> NoFile]

\* load_settings(), lines 169-176: {} for a missing file, else json.loads
load_settings(file) ==
    IF file.exists THEN [k \in DOMAIN file.obj |-> loads(file.obj[k])] ELSE << >>

\* (variant: the file is written from data alone)
save_settings_NoMerge(file, data) ==
    [exists |-> TRUE, obj |-> [k \in DOMAIN data |-> dumps(data[k])]]

\* save_settings(data), lines 179-183: settings = load_settings();
\* settings.update(data); write_text(json.dumps(settings))
save_settings(file, data) ==
    LET merged == data @@ load_settings(file)
    IN [exists |-> TRUE, obj |-> [k \in DOMAIN merged |-> dumps(merged[k])]]

\* ---- the instance id as text (instance_manager.py 59-65, 180-183) ----
\* f"{'cpu' if dev == 'cpu' else f'gpu{dev}'}_{config.port}"
IdString(cfg) ==
    (IF cfg.gpu_device = "cpu" THEN "cpu" ELSE "gpu" \o cfg.gpu_device)
        \o "_" \o ToString(cfg.port)

\* f"{base_id}_{counter}"
Suffixed(base_id, counter) == base_id \o "_" \o ToString(counter)

\* (variant: the first suffix is tried without looking it up)
UniqueIdString_NoRecheck(keys, base_id, instance_id, counter) ==
    IF instance_id \in keys THEN Suffixed(base_id, counter) ELSE instance_id

\* counter = 2; while instance_id in self._instances:
\*     instance_id = f"{base_id}_{counter}"; counter += 1
RECURSIVE UniqueIdString(_, _, _, _)
UniqueIdString(keys, base_id, instance_id, counter) ==
    IF instance_id \in keys
    THEN UniqueIdString(keys, base_id, Suffixed(base_id, counter), counter + 1)
    ELSE instance_id

\* no request answered without a job yet
NoAnswer == [handler |-> "", status |-> 0]

\* no id generated yet
NoMade == [keys |-> {}, cfg |-> NoCfg, id |-> ""]

\* no next_available_port call made yet
NoFound == [base_port |-> 0, used |-> {}, port |-> 0]

\* no GET /api/logs answered yet
NoResp == [limit |-> 0, tag |-> "", entries |-> << >>, count |-> 0, at |-> 0]

\* a history that keeps every entry
DequeAppend_NoEvict(h, e) == Append(h, e)

\* a full history that refuses the new entry
DequeAppend_DropNew(h, e) == IF Len(h) >= MAX_HISTORY THEN h ELSE Append(h, e)

\* deque(maxlen=MAX_HISTORY).append(entry): a full deque drops its oldest entry
DequeAppend(h, e) == IF Len(h) >= MAX_HISTORY THEN Append(Tail(h), e) ELSE Append(h, e)

Init ==
    /\ instances = << >>
    /\ heap = << >>
    /\ th = [t \in Threads |-> Blank]
    /\ _jobs = << >>
    /\ jobobj = << >>
    /\ run = << >>
    /\ req = IdleReq
    /\ loop = "unset"
    /\ now = 1
    /\ created = 0
    /\ history = << >>
    /\ emitted = 0
    /\ websockets = {}
    /\ ready = << >>
    /\ tasks = << >>
    /\ em = [t \in Emitters |-> EmIdle]
    /\ conn = [w \in WsIds |-> NoConn]
    /\ resp = NoResp
    /\ found = NoFound
    /\ settings = NoFile
    /\ put = NoPut
    /\ made = NoMade
    /\ answered = NoAnswer

\* ---- add_instance(config): one critical section ----
AddResult(insts, hp, cfg) ==
    IF LimitReached(insts) THEN LimitError
    ELSE IF PortHolders(insts, hp, cfg.port) # {}
         THEN PortInUseError(CHOOSE k \in PortHolders(insts, hp, cfg.port) : TRUE)
         ELSE IdRet(UniqueId(insts, _make_id(cfg), 1))

AddInstance(t, cfg) ==
    /\ th[t].pc = "idle"
    /\ LET r == AddResult(instances, heap, cfg)
           done == [Blank EXCEPT !.pc = "done", !.op = "add", !.cfg = cfg, !.ret = r]
       IN IF r.ok
          THEN /\ r.id.suffix <= MaxSuffix
               /\ Slot(r.id) \notin DOMAIN heap
               /\ LET o == Slot(r.id)
                  IN Commit((r.id :> o) @@ instances,
                            (o :> InstanceState(r.id, cfg)) @@ heap,
                            [th EXCEPT ![t] = done])
          ELSE Commit(instances, heap, [th EXCEPT ![t] = done])

\* ---- self._instances.get(instance_id) under the lock ----
Lookup(insts, id) == IF id \in DOMAIN insts THEN insts[id] ELSE None

Done(t, r) == [Blank EXCEPT !.pc = "done", !.op = th[t].op, !.id = th[t].id,
                            !.sup = th[t].sup, !.ret = r, !.onloop = th[t].onloop]

\* where a caller of stop_server continues when stop_server returns
AfterStop(op) == CASE op = "remove" -> "remove_pop"
                   [] op = "stop" -> "stop_status"
                   [] op = "stop_all" -> "stop_all_next"

\* ---- ServerManager.stop_server ----
\* line 236: if not self.is_running: return True
StopCheck(t) ==
    /\ th[t].pc = "stop_check"
    /\ IF is_running(heap, th[t].ref)
       THEN Commit(instances, heap, [th EXCEPT ![t].pc = "stop_kill"])
       ELSE Commit(instances, heap,
                   [th EXCEPT ![t].ok = TRUE, ![t].pc = AfterStop(th[t].op)])

\* lines 245-269: tree kill / terminate / wait / kill / wait on self.process.
\* self.process is read again here: when another stop has cleared it the
\* attribute access raises and the except branch returns False.  A child whose
\* death cannot be confirmed (the wait after kill times out) also returns False.
StopKill(t) ==
    /\ th[t].pc = "stop_kill"
    /\ LET o == th[t].ref
           failed == [th EXCEPT ![t].ok = FALSE, ![t].pc = AfterStop(th[t].op)]
       IN IF heap[o].process = "none"
          THEN Commit(instances, heap, failed)
          ELSE \/ Commit(instances, [heap EXCEPT ![o].process = "dead"],
                         [th EXCEPT ![t].pc = "stop_clear"])
               \/ /\ heap[o].process = "alive"
                  /\ Commit(instances, heap, failed)

\* self.process = v: a child that still runs and was referred to becomes unreferenced
Unref(hp, o, v) ==
    [hp EXCEPT ![o].process = v,
               ![o].leaked = IF hp[o].process = "alive" THEN @ + 1 ELSE @]

\* lines 271-277: self.process = None ...; return True
StopClear(t) ==
    /\ th[t].pc = "stop_clear"
    /\ Commit(instances, Unref(heap, th[t].ref, "none"),
              [th EXCEPT ![t].ok = TRUE, ![t].pc = AfterStop(th[t].op)])

\* ---- remove_instance(instance_id) ----
\* lines 78-84: look the id up under the lock, then read state.server.is_running
\* (reading the registry and reading the handle commute with every step of
\* another thread, so the two reads are one step)
RemoveInstance(t, id) ==
    /\ th[t].pc = "idle"
    /\ LET o == Lookup(instances, id)
           call == [Blank EXCEPT !.op = "remove", !.id = id]
       IN Commit(instances, heap,
                 [th EXCEPT ![t] =
                    IF o = None
                    THEN [call EXCEPT !.pc = "done", !.ret = BoolRet(FALSE)]
                    ELSE [call EXCEPT !.ref = o,
                                      !.pc = IF is_running(heap, o) THEN "stop_check"
                                             ELSE "remove_pop"]])

\* the object popped from the registry moves to an orphan slot while a thread
\* or a live child still refers to it
Relocate(o, n, i2, h2, t2) ==
    Commit(i2,
           [x \in (DOMAIN h2 \ {o}) \cup {n} |-> IF x = n THEN h2[o] ELSE h2[x]],
           [u \in Threads |-> [t2[u] EXCEPT
                !.ref = IF @ = o THEN n ELSE @,
                !.todo = IF o \in @ THEN (@ \ {o}) \cup {n} ELSE @]])

\* lines 87-89: self._instances.pop(instance_id, None); return True
RemovePop(t) ==
    /\ th[t].pc = "remove_pop"
    /\ LET id == th[t].id
           t2 == [th EXCEPT ![t] = Done(t, BoolRet(TRUE))]
       IN IF id \notin DOMAIN instances
          THEN Commit(instances, heap, t2)
          ELSE LET o == instances[id]
                   i2 == [k \in DOMAIN instances \ {id} |-> instances[k]]
               IN IF o \in Reachable(i2, heap, t2)
                  THEN /\ FreeOrphanSlots # {}
                       /\ Relocate(o, Min(FreeOrphanSlots), i2, heap, t2)
                  ELSE Commit(i2, heap, t2)

\* ---- stop_instance(instance_id) ----
\* lines 127-132: look the id up under the lock and enter stop_server
StopInstance(t, id) ==
    /\ th[t].pc = "idle"
    /\ LET o == Lookup(instances, id)
           call == [Blank EXCEPT !.op = "stop", !.id = id]
       IN Commit(instances, heap,
                 [th EXCEPT ![t] = IF o = None
                                   THEN [call EXCEPT !.pc = "done", !.ret = BoolRet(FALSE)]
                                   ELSE [call EXCEPT !.pc = "stop_check", !.ref = o]])

\* (variant: a successful stop also drops the instance from the registry)
StopStatus_Unregisters(t) ==
    /\ th[t].pc = "stop_status"
    /\ Commit(IF th[t].ok THEN [k \in DOMAIN instances \ {th[t].id} |-> instances[k]]
              ELSE instances,
              IF th[t].ok THEN [heap EXCEPT ![th[t].ref].status = "stopped"] ELSE heap,
              [th EXCEPT ![t] = Done(t, BoolRet(th[t].ok))])

\* lines 133-135: if success: state.status = "stopped"; return success
StopStatus(t) ==
    /\ th[t].pc = "stop_status"
    /\ Commit(instances,
              IF th[t].ok THEN [heap EXCEPT ![th[t].ref].status = "stopped"] ELSE heap,
              [th EXCEPT ![t] = Done(t, BoolRet(th[t].ok))])

\* ---- stop_all() ----
\* lines 139-140: running = [s for s in instances.values() if s.server.is_running]
Snapshot(insts, hp) == {insts[k] : k \in {j \in DOMAIN insts : is_running(hp, insts[j])}}

\* line 143: for state in running  (any order of the snapshot); line 148: return all_ok
StopAllIter(t, call) ==
    IF call.todo = {}
    THEN {[Blank EXCEPT !.pc = "done", !.op = "stop_all", !.ret = BoolRet(call.all_ok),
                        !.onloop = call.onloop]}
    ELSE {[call EXCEPT !.ref = o, !.todo = @ \ {o}, !.ok = FALSE, !.pc = "stop_check"] :
             o \in call.todo}

\* a start_instance call in flight when stop_all is called is marked superseded
StopAllCall(t, lp) ==
    /\ th[t].pc = "idle"
    /\ \E nxt \in StopAllIter(t, [Blank EXCEPT !.op = "stop_all", !.onloop = lp,
                                               !.todo = Snapshot(instances, heap)]) :
          CommitInst(instances, heap,
                     [u \in Threads |-> IF u = t THEN nxt
                                        ELSE IF th[u].op = "start" /\ th[u].pc # "done"
                                             THEN [th[u] EXCEPT !.sup = TRUE]
                                             ELSE th[u]])

\* stop_all() called from a worker thread
StopAll(t) ==
    /\ StopAllCall(t, FALSE)
    /\ UNCHANGED <<jobvars, logvars, appvars>>

\* lines 144-147: all_ok = False, or state.status = "stopped"; then the next one
StopAllNext(t) ==
    /\ th[t].pc = "stop_all_next"
    /\ \E nxt \in StopAllIter(t, [th[t] EXCEPT !.all_ok = (@ /\ th[t].ok), !.ref = None]) :
          Commit(instances,
                 IF th[t].ok THEN [heap EXCEPT ![th[t].ref].status = "stopped"] ELSE heap,
                 [th EXCEPT ![t] = nxt])

\* ---- start_instance(instance_id) ----
\* (variant: the lookup waits for a mutex that a thread holds while it spawns,
\* polls or kills)
StartInstance_LockHeld(t, id) ==
    /\ th[t].pc = "idle"
    /\ \A u \in Threads : th[u].pc \notin Blocking
    /\ LET o == Lookup(instances, id)
           call == [Blank EXCEPT !.op = "start", !.id = id]
       IN IF o = None
          THEN Commit(instances, heap,
                      [th EXCEPT ![t] = [call EXCEPT !.pc = "done", !.ret = BoolRet(FALSE)]])
          ELSE Commit(instances, [heap EXCEPT ![o].status = "starting"],
                      [th EXCEPT ![t] = [call EXCEPT !.pc = "start_check", !.ref = o]])

\* lines 97-102: look the id up under the lock; state.status = "starting"
\* (the write follows the lookup at once and commutes with every step another
\* thread can take in between)
StartInstance(t, id) ==
    /\ th[t].pc = "idle"
    /\ LET o == Lookup(instances, id)
           call == [Blank EXCEPT !.op = "start", !.id = id]
       IN IF o = None
          THEN Commit(instances, heap,
                      [th EXCEPT ![t] = [call EXCEPT !.pc = "done", !.ret = BoolRet(FALSE)]])
          ELSE Commit(instances, [heap EXCEPT ![o].status = "starting"],
                      [th EXCEPT ![t] = [call EXCEPT !.pc = "start_check", !.ref = o]])

\* (variant: a start that fails keeps a child it has already spawned)
StartCheck_ChildKept(t) ==
    /\ th[t].pc = "start_check"
    /\ IF is_running(heap, th[t].ref)
       THEN Commit(instances, heap, [th EXCEPT ![t].ok = TRUE, ![t].pc = "start_fin",
                                               ![t].msg = "Server already running"])
       ELSE \/ Commit(instances, heap, [th EXCEPT ![t].pc = "start_spawn"])
            \/ Commit(instances, [heap EXCEPT ![th[t].ref].process = "alive"],
                      [th EXCEPT ![t].ok = FALSE, ![t].pc = "start_fin",
                                 ![t].msg = "Error"])

\* ---- ServerManager.start_server ----
\* lines 77-106: already running -> True; entry file or interpreter missing ->
\* False (as does a spawn that raises, lines 196-199: no child, return False)
StartCheck(t) ==
    /\ th[t].pc = "start_check"
    /\ IF is_running(heap, th[t].ref)
       THEN Commit(instances, heap, [th EXCEPT ![t].ok = TRUE, ![t].pc = "start_fin",
                                               ![t].msg = "Server already running"])
       ELSE \/ Commit(instances, heap, [th EXCEPT ![t].pc = "start_spawn"])
            \/ Commit(instances, heap, [th EXCEPT ![t].ok = FALSE, ![t].pc = "start_fin",
                                                  ![t].msg = "Error"])

\* the children running at this moment, over all handles
RECURSIVE SumLeaked(_, _)
SumLeaked(hp, S) == IF S = {} THEN 0
                    ELSE LET o == CHOOSE x \in S : TRUE
                         IN hp[o].leaked + SumLeaked(hp, S \ {o})
TotalLive == Cardinality({o \in DOMAIN heap : heap[o].process = "alive"})
             + SumLeaked(heap, {o \in DOMAIN heap : heap[o].leaked > 0})

\* lines 157-167: self.process = subprocess.Popen(...)
StartSpawn(t) ==
    /\ th[t].pc = "start_spawn"
    /\ TotalLive < MaxProcs
    /\ Commit(instances, Unref(heap, th[t].ref, "alive"),
              [th EXCEPT ![t].pc = "start_wait"])

\* (variant: a child that is alive but has not answered when the probe budget
\* is used up counts as a failed start)
StartWait_TimeoutFails(t) ==
    /\ th[t].pc = "start_wait"
    /\ IF is_running(heap, th[t].ref)
       THEN \/ Commit(instances, heap,
                      [th EXCEPT ![t].ok = TRUE, ![t].pc = "start_fin",
                                 ![t].msg = "Server running"])
            \/ Commit(instances, heap,
                      [th EXCEPT ![t].ok = FALSE, ![t].pc = "start_fin",
                                 ![t].msg = "Server still starting"])
       ELSE Commit(instances, heap,
                   [th EXCEPT ![t].ok = FALSE, ![t].pc = "start_fin",
                              ![t].msg = "Server process died during startup"])

\* lines 181-194, 211-232: _wait_for_server returns True on HTTP 200 while the
\* child runs (line 220 tests is_running before each probe); when the child is
\* gone or the probe budget is used up the result is self.is_running at that
\* moment.  msg is the last message handed to progress_callback.
StartWait(t) ==
    /\ th[t].pc = "start_wait"
    /\ IF is_running(heap, th[t].ref)
       THEN \E m \in {"Server running", "Server still starting"} :
               Commit(instances, heap,
                      [th EXCEPT ![t].ok = TRUE, ![t].pc = "start_fin", ![t].msg = m])
       ELSE Commit(instances, heap,
                   [th EXCEPT ![t].ok = FALSE, ![t].pc = "start_fin",
                              ![t].msg = "Server process died during startup"])

\* lines 118-119: state.status = "running" if success else "error"; return success
StartFin(t) ==
    /\ th[t].pc = "start_fin"
    /\ Commit(instances,
              [heap EXCEPT ![th[t].ref].status = IF th[t].ok THEN "running" ELSE "error"],
              [th EXCEPT ![t] = Done(t, BoolRet(th[t].ok))])

\* ---- the engine child exits on its own ----
ChildExit(o) ==
    /\ heap[o].process = "alive"
    /\ Commit(instances, [heap EXCEPT ![o].process = "dead"], th)

LeakedChildExit(o) ==
    /\ heap[o].leaked > 0
    /\ Commit(instances, [heap EXCEPT ![o].leaked = @ - 1], th)

\* ---- api/server.py error_middleware: exception -> HTTP status ----
error_middleware(exc, status) ==
    IF exc = "HTTPException" THEN status
    ELSE IF exc = "ValueError" THEN 400
    ELSE 500

\* POST /api/instances: add_instance raises ValueError on failure, else 201
PostInstancesStatus(r) == IF r.ok THEN 201 ELSE error_middleware("ValueError", 0)

\* ---- next_available_port(base_port) ----
\* lines 170-176: port = base_port; while port <= PORT_RANGE_END: return the
\* port when it is not in used, else port += 1; after the loop: return port
RECURSIVE NextPortLoop(_, _)
NextPortLoop(used, port) ==
    IF port <= PORT_RANGE_END
    THEN IF port \notin used THEN port ELSE NextPortLoop(used, port + 1)
    ELSE port

\* lines 168-169: used = the ports of the registered instances, under the lock
next_available_port(base_port) ==
    /\ found' = [base_port |-> base_port, used |-> UsedPorts,
                 port |-> NextPortLoop(UsedPorts, base_port)]
    /\ UNCHANGED <<instvars, jobvars, logvars, resp, settings, put, made, answered>>

\* ---- the HTTP handlers of the instances (api/routes/instances.py) and of the
\* engine target (api/routes/comfyui.py) ----
\* A handler runs on the event-loop thread, one at a time; a manager call made
\* through run_in_executor runs on a worker thread (onloop = FALSE), a manager
\* call made by the handler itself runs on the event-loop thread (onloop = TRUE)
\* and the loop dispatches no other handler until it has returned.
LoopFree == \A u \in Threads : ~th[u].onloop

any_running == Snapshot(instances, heap) # {}

\* (variant: the handler stores the request's vram_mode as it came)
HandleAdd_NoCoerce(t, gpu_device, port, vram_mode) ==
    /\ LoopFree
    /\ IF port < 1024 \/ port > 65535 \/ vram_mode \notin VRAM_MODES
       THEN /\ th[t].pc = "idle"
            /\ Commit(instances, heap,
                      [th EXCEPT ![t] = [Blank EXCEPT !.pc = "done", !.ret = InvalidRequest]])
       ELSE AddInstance(t, InstanceConfig(gpu_device, port, vram_mode))

\* POST /api/instances, lines 36-75: the port and the vram_mode are checked
\* (ValueError), vram_mode becomes "cpu" for gpu_device "cpu", and
\* im.add_instance(config) is called in the handler
HandleAdd(t, gpu_device, port, vram_mode) ==
    /\ LoopFree
    /\ IF port < 1024 \/ port > 65535 \/ vram_mode \notin VRAM_MODES
       THEN /\ th[t].pc = "idle"
            /\ Commit(instances, heap,
                      [th EXCEPT ![t] = [Blank EXCEPT !.pc = "done", !.ret = InvalidRequest]])
       ELSE AddInstance(t, InstanceConfig(gpu_device, port,
                                          IF gpu_device = "cpu" /\ vram_mode # "cpu"
                                          THEN "cpu" ELSE vram_mode))

\* POST /api/instances/{id}/start, lines 96-129: 404 for an unknown id,
\* "Already running" for a running one, else im.start_instance in the executor
HandleStart(t, id) ==
    /\ LoopFree
    /\ id \in DOMAIN instances
    /\ ~is_running(heap, instances[id])
    /\ StartInstance(t, id)

\* POST /api/instances/stop-all, lines 208-222 (and the purge handlers,
\* api/routes/install.py lines 110-113): im.stop_all in the executor
HandleStopAll(t) ==
    /\ LoopFree
    /\ any_running
    /\ StopAll(t)

\* rebuild_managers(app, path), api/server.py lines 107-122, called in the
\* handler: if im.any_running(): im.stop_all(); then InstanceManager(...) is
\* called with a keyword it does not take and raises TypeError (500): the
\* registry stays as it is
rebuild_managers(t) ==
    IF any_running THEN StopAllCall(t, TRUE)
    ELSE th[t].pc = "idle" /\ UNCHANGED instvars

\* a handler's save_settings(data) call
SaveCall(data) ==
    /\ settings' = save_settings(settings, data)
    /\ put' = [data |-> data, old |-> settings]

\* settings.get(key, [])
GetList(s, key) == IF key \in DOMAIN s THEN s[key].v ELSE << >>

\* PUT /api/settings (api/routes/status.py lines 63-67): save_settings(data)
put_settings(data) ==
    /\ LoopFree
    /\ SaveCall(data)
    /\ UNCHANGED <<instvars, jobvars, logvars, resp, found, made, answered>>

\* PUT /api/comfyui/target (api/routes/comfyui.py lines 23-46) with a path that
\* holds a main.py: the path is saved as comfyui_dir and, when new, appended to
\* saved_comfyui_dirs; then rebuild_managers
put_target(t, path) ==
    /\ LoopFree
    /\ LET saved == GetList(load_settings(settings), "saved_comfyui_dirs")
           known == path \in {saved[i] : i \in 1 .. Len(saved)} \/ path = COMFYUI_DIR
       IN SaveCall(IF known THEN "comfyui_dir" :> PyStr(path)
                   ELSE ("comfyui_dir" :> PyStr(path))
                        @@ ("saved_comfyui_dirs" :> PyList(Append(saved, path))))
    /\ rebuild_managers(t)
    /\ UNCHANGED <<jobvars, logvars, resp, found, made, answered>>

\* POST /api/comfyui/target/reset (lines 49-54)
post_reset_target(t) ==
    /\ LoopFree
    /\ SaveCall("comfyui_dir" :> PyNone)
    /\ rebuild_managers(t)
    /\ UNCHANGED <<jobvars, logvars, resp, found, made, answered>>

\* ---- the caller takes the result and the call's locals are dropped ----
Return(t) ==
    /\ th[t].pc = "done"
    /\ Commit(instances, heap, [th EXCEPT ![t] = Blank])

----------------------------------------------------------------------------
\* ---- JobManager (api/jobs.py) ----
JobIds == 1 .. NumJobIds
Operations == {"install", "download_models"}
Terminal == {"completed", "failed"}

\* JobState(job_id=..., operation=...): status PENDING, created_at = time.time()
JobState(id, op, t) ==
    [job_id |-> id, operation |-> op, status |-> "pending", result |-> "none",
     error |-> "none", created_at |-> t, started_at |-> None, completed_at |-> None]

\* time.time() of a clock that is not set back: the values the next read returns
Times == now .. Min({now + 1, MaxTime})

start_job(hp, u, t) == [hp EXCEPT ![u].status = "running", ![u].started_at = t]

complete_job(hp, u, t, res) ==
    [hp EXCEPT ![u].status = "completed", ![u].completed_at = t, ![u].result = res]

fail_job(hp, u, t, e) ==
    [hp EXCEPT ![u].status = "failed", ![u].completed_at = t, ![u].error = e]

\* self._jobs[job_id] = job: a key already in the dict keeps its position and
\* gets the new value, a new key is appended
KeyPos(tab, hp, id) == {i \in 1 .. Len(tab) : hp[tab[i]].job_id = id}
DictSet(tab, hp, id, u) ==
    IF KeyPos(tab, hp, id) = {} THEN Append(tab, u)
    ELSE [tab EXCEPT ![CHOOSE i \in KeyPos(tab, hp, id) : TRUE] = u]

\* sorted(..., key=created_at): a stable sort
InsertSorted(s, u, hp) ==
    LET k == Cardinality({i \in 1 .. Len(s) : hp[s[i]].created_at <= hp[u].created_at})
    IN SubSeq(s, 1, k) \o <<u>> \o SubSeq(s, k + 1, Len(s))

RECURSIVE SortedByCreated(_, _)
SortedByCreated(s, hp) ==
    IF s = << >> THEN << >>
    ELSE InsertSorted(SortedByCreated(SubSeq(s, 1, Len(s) - 1), hp), s[Len(s)], hp)

\* a prune that looks for COMPLETED records only
Completed_NoFailed(tab, hp) ==
    IF Len(tab) <= MAX_JOBS THEN << >>
    ELSE SortedByCreated(SelectSeq(tab, LAMBDA u : hp[u].status = "completed"), hp)

\* _prune, lines 104-110: nothing when len(self._jobs) <= MAX_JOBS, else the
\* COMPLETED and FAILED records, oldest created_at first
Completed(tab, hp) ==
    IF Len(tab) <= MAX_JOBS THEN << >>
    ELSE SortedByCreated(SelectSeq(tab, LAMBDA u : hp[u].status \in Terminal), hp)

\* _prune, lines 111-113: while len(self._jobs) > MAX_JOBS and completed: del
RECURSIVE PruneLoop(_, _)
PruneLoop(tab, completed) ==
    IF Len(tab) > MAX_JOBS /\ completed # << >>
    THEN PruneLoop(SelectSeq(tab, LAMBDA u : u # Head(completed)), Tail(completed))
    ELSE tab

\* positions of a run() closure after which its executor thread is free again:
\* it returned, or an exception escaped it
Ended == {"returned", "escaped"}

\* A JobState object lives while the table or a closure that has not ended
\* refers to it.
JobCommit(tab, hp, r) ==
    LET keep == {tab[i] : i \in 1 .. Len(tab)} \cup {u \in DOMAIN r : r[u] \notin Ended}
    IN /\ _jobs' = tab
       /\ jobobj' = [u \in keep \cap DOMAIN hp |-> hp[u]]
       /\ run' = [u \in keep \cap DOMAIN r |-> r[u]]
       /\ UNCHANGED <<instvars, appvars, logvars>>

\* ---- a job-opening handler (routes/install.py 11-36 and its likes) ----
\* create_job lines 68-70 and _prune lines 104-110, on the event-loop thread:
\* new JobState under a uuid4()[:8] key, insert, list the terminal records
CreateJob(id, op, t) ==
    /\ req.pc = "idle"
    /\ loop = "open"
    /\ LET u == created + 1
           hp == (u :> JobState(id, op, t)) @@ jobobj
           tab == DictSet(_jobs, jobobj, id, u)
       IN /\ JobCommit(tab, hp, run)
          /\ req' = [pc |-> "prune", job |-> u, completed |-> Completed(tab, hp)]
          /\ now' = t
          /\ created' = u
          /\ UNCHANGED loop

\* _prune lines 111-113, create_job returns the job, the handler hands run() to
\* the executor and answers 202
CreateReturn ==
    /\ req.pc = "prune"
    /\ JobCommit(PruneLoop(_jobs, req.completed), jobobj, (req.job :> "queued") @@ run)
    /\ req' = IdleReq
    /\ UNCHANGED <<loop, now, created>>

\* ---- the run() closure on an executor thread ----
Queued == {u \in DOMAIN run : run[u] = "queued"}
Active == {u \in DOMAIN run : run[u] \notin Ended \cup {"queued"}}

\* a free executor thread takes the oldest queued closure; run() line 21:
\* jm.start_job(job)
PoolStart(u, t) ==
    /\ u \in Queued
    /\ \A v \in Queued : u <= v
    /\ Cardinality(Active) < NumWorkers
    /\ JobCommit(_jobs, start_job(jobobj, u, t), [run EXCEPT ![u] = "emit_start"])
    /\ now' = t
    /\ UNCHANGED <<req, loop, created>>

\* the three log_hub.emit calls of run(): before the try (line 22), in the try
\* after complete_job / fail_job (lines 27, 30), in the except branch (line 33)
EmitPcs == {"emit_start", "emit_end", "emit_err"}
Calling(pc) == CASE pc = "emit_start" -> "emit_start_call"
                 [] pc = "emit_end" -> "emit_end_call"
                 [] pc = "emit_err" -> "emit_err_call"
AfterEmit(pc) == CASE pc \in {"emit_start", "emit_start_call"} -> "work"
                   [] pc \in {"emit_end", "emit_end_call"} -> "returned"
                   [] pc \in {"emit_err", "emit_err_call"} -> "returned"

\* LogHub.emit as the closure sees it (what the hub does with the entry is
\* LogEmit, LogSchedule and the broadcast below; the job depends only on
\* whether the call returns or raises).  Lines 48-51: the entry is appended,
\* then self._loop and not self._loop.is_closed() is tested
EmitCheck(u) ==
    /\ u \in DOMAIN run
    /\ run[u] \in EmitPcs
    /\ JobCommit(_jobs, jobobj,
                 [run EXCEPT ![u] = IF loop = "open" THEN Calling(@) ELSE AfterEmit(@)])
    /\ UNCHANGED <<req, loop, now, created>>

\* LogHub.emit lines 52-55: self._loop.call_soon_threadsafe(...), which raises
\* RuntimeError when the loop has been closed since the test.  Raised by the
\* emit of line 22 the error leaves run(); raised in the try it is caught
\* (line 31) and run() calls fail_job (line 32); raised in the except branch
\* it leaves run().
EmitCall(u, t) ==
    /\ u \in DOMAIN run
    /\ run[u] \in {Calling(p) : p \in EmitPcs}
    /\ UNCHANGED <<req, loop, created>>
    /\ IF loop = "open"
       THEN /\ JobCommit(_jobs, jobobj, [run EXCEPT ![u] = AfterEmit(@)])
            /\ UNCHANGED now
       ELSE IF run[u] = "emit_end_call"
            THEN /\ JobCommit(_jobs, fail_job(jobobj, u, t, "RuntimeError"),
                              [run EXCEPT ![u] = "emit_err"])
                 /\ now' = t
            ELSE /\ JobCommit(_jobs, jobobj, [run EXCEPT ![u] = "escaped"])
                 /\ UNCHANGED now

\* what the collaborator call of run() does: return true, return false (the
\* install handlers test the result, lines 25-30; the download and node
\* handlers complete the job with whatever was returned), or raise
Outcomes(op) == IF op \in {"install", "install_sage_attention", "update_comfyui"} THEN {"true", "false", "raise"} ELSE {"true", "raise"}

\* run() lines 24-32: the collaborator call, then complete_job or fail_job
Work(u, out, t) ==
    /\ u \in DOMAIN run
    /\ run[u] = "work"
    /\ out \in Outcomes(jobobj[u].operation)
    /\ CASE out = "true" ->
              JobCommit(_jobs, complete_job(jobobj, u, t, "true"),
                        [run EXCEPT ![u] = "emit_end"])
         [] out = "false" ->
              JobCommit(_jobs, fail_job(jobobj, u, t, "failed"),
                        [run EXCEPT ![u] = "emit_end"])
         [] out = "raise" ->
              JobCommit(_jobs, fail_job(jobobj, u, t, "exception"),
                        [run EXCEPT ![u] = "emit_err"])
    /\ now' = t
    /\ UNCHANGED <<req, loop, created>>

\* on_startup (api/server.py lines 65-68): log_hub.set_loop(the running loop)
\* and, on the loop thread, log_hub.emit("[API] Server started").  The entry is
\* appended; its broadcast runs before the server accepts a connection and
\* finds no subscriber.
on_startup ==
    /\ loop = "unset"
    /\ websockets = {}
    /\ \A t \in DOMAIN em : em[t].pc = "idle"
    /\ loop' = "open"
    /\ history' = DequeAppend(history, LogEntry(emitted + 1, "system"))
    /\ emitted' = emitted + 1
    /\ UNCHANGED <<instvars, appvars, websockets, ready, tasks, em, conn,
                   _jobs, jobobj, run, req, now, created>>

\* web.run_app returns and closes the event loop (api/server.py line 130);
\* executor threads keep running
LoopClose ==
    /\ loop = "open"
    /\ req.pc = "idle"
    /\ loop' = "closed"
    /\ UNCHANGED <<instvars, appvars, logvars, _jobs, jobobj, run, req, now, created>>

\* ---- the job-opening handlers with a synchronous validation
\* (routes/install.py, routes/models.py, routes/nodes.py) ----
\* the ids of the model registry and of the node registry
MODELS == {"model_a", "model_b"}
CUSTOM_NODES == {"node_a", "node_b"}

\* the handler answers on the event-loop thread without opening a job: a raised
\* ValueError becomes 400 in error_middleware, a direct answer is 200
Answer(h, status) ==
    /\ req.pc = "idle"
    /\ loop = "open"
    /\ answered' = [handler |-> h, status |-> status]
    /\ UNCHANGED <<instvars, jobvars, logvars, resp, found, settings, put, made>>

\* (variant: the job is opened before the Python environment is looked at)
post_install_sage_JobFirst(is_created, id, t) ==
    IF ~is_created
    THEN /\ req.pc = "idle"
         /\ loop = "open"
         /\ answered' = [handler |-> "post_install_sage",
                         status |-> error_middleware("ValueError", 0)]
         /\ LET u == created + 1
            IN /\ _jobs' = DictSet(_jobs, jobobj, id, u)
               /\ jobobj' = (u :> JobState(id, "install_sage_attention", t)) @@ jobobj
               /\ created' = u
         /\ UNCHANGED <<instvars, logvars, run, req, loop, now,
                        resp, found, settings, put, made>>
    ELSE CreateJob(id, "install_sage_attention", t)

\* install.py 45-49: if not venv.is_created: raise ValueError; create_job
post_install_sage(is_created, id, t) ==
    IF ~is_created
    THEN Answer("post_install_sage", error_middleware("ValueError", 0))
    ELSE CreateJob(id, "install_sage_attention", t)

\* install.py 76-79: if not installer.is_installed: raise ValueError; create_job
post_update(is_installed, id, t) ==
    IF ~is_installed
    THEN Answer("post_update", error_middleware("ValueError", 0))
    ELSE CreateJob(id, "update_comfyui", t)

\* install.py 107-127: if not installer.is_installed: raise ValueError; running
\* instances are stopped on an executor thread, then the purge runs there
\* (it changes the engine directory only) and the handler answers {"ok": ...}
post_purge(t, is_installed) ==
    IF ~is_installed
    THEN Answer("post_purge", error_middleware("ValueError", 0))
    ELSE IF any_running
         THEN StopAllCall(t, FALSE) /\ UNCHANGED <<jobvars, logvars, appvars>>
         ELSE Answer("post_purge", 200)

\* models.py 95-119: an empty list and an id outside MODELS raise ValueError;
\* when every model asked for is on disk the answer is 200 without a job
post_download(model_ids, on_disk, id, t) ==
    IF model_ids = << >>
    THEN Answer("post_download", error_middleware("ValueError", 0))
    ELSE IF \E i \in 1 .. Len(model_ids) : model_ids[i] \notin MODELS
         THEN Answer("post_download", error_middleware("ValueError", 0))
         ELSE IF \A i \in 1 .. Len(model_ids) : model_ids[i] \in on_disk
              THEN Answer("post_download", 200)
              ELSE CreateJob(id, "download_models", t)

\* nodes.py 63-78: an empty list and an id outside CUSTOM_NODES raise ValueError
post_install(node_ids, id, t) ==
    IF node_ids = << >>
    THEN Answer("post_install", error_middleware("ValueError", 0))
    ELSE IF \E i \in 1 .. Len(node_ids) : node_ids[i] \notin CUSTOM_NODES
         THEN Answer("post_install", error_middleware("ValueError", 0))
         ELSE CreateJob(id, "install_nodes", t)

----------------------------------------------------------------------------
\* ---- LogHub (api/log_hub.py) and ws_logs (api/routes/logs.py) ----
NoTag == ""

\* get_recent(limit, tag), lines 85-88: entries[-limit:] of the entries with
\* the tag (all entries when tag is empty); entries[-0:] is the whole list
get_recent(h, limit, tag) ==
    LET entries == IF tag = NoTag THEN h ELSE SelectSeq(h, LAMBDA e : e.tag = tag)
    IN IF limit = 0 \/ limit >= Len(entries) THEN entries
       ELSE SubSeq(entries, Len(entries) - limit + 1, Len(entries))

\* emit lines 48-51, from any thread: new LogEntry, self._history.append(entry)
\* (one atomic deque operation), test self._loop and not self._loop.is_closed()
LogEmit(t, tag) ==
    /\ em[t].pc = "idle"
    /\ LET e == LogEntry(emitted + 1, tag)
       IN /\ history' = DequeAppend(history, e)
          /\ emitted' = emitted + 1
          /\ em' = [em EXCEPT ![t] = IF loop = "open" THEN [pc |-> "call", entry |-> e]
                                     ELSE EmIdle]
    /\ UNCHANGED <<instvars, appvars, jobvars, websockets, ready, tasks, conn>>

\* an emit that would wait for the broadcasts under way before it returns
LogSchedule_AwaitsBroadcast(t) ==
    /\ em[t].pc = "call"
    /\ DOMAIN tasks = {}
    /\ ready' = IF loop = "open" THEN Append(ready, em[t].entry) ELSE ready
    /\ em' = [em EXCEPT ![t] = EmIdle]
    /\ UNCHANGED <<instvars, appvars, jobvars, history, emitted, websockets, tasks, conn>>

\* emit lines 52-55: call_soon_threadsafe(ensure_future, self._broadcast(entry))
\* puts the broadcast at the end of the loop's queue (it raises when the loop
\* has been closed since the test)
LogSchedule(t) ==
    /\ em[t].pc = "call"
    /\ ready' = IF loop = "open" THEN Append(ready, em[t].entry) ELSE ready
    /\ em' = [em EXCEPT ![t] = EmIdle]
    /\ UNCHANGED <<instvars, appvars, jobvars, history, emitted, websockets, tasks, conn>>

\* _broadcast lines 61-66, one pass of "for ws in self._websockets" of the
\* task k with state b: the set iterator raises RuntimeError when the set has
\* changed size since the loop began, which ends the task (line 66 is not
\* reached); at the end of the set the dead sockets are removed; else the entry
\* is sent to the next socket, which raises for a socket whose client is gone.
\* The iterator walks the sockets in one fixed order (here: by number).
Without(f, k) == [x \in DOMAIN f \ {k} |-> f[x]]

BroadcastPass(k, b, tk) ==
    IF Cardinality(websockets) # b.size
    THEN /\ tasks' = Without(tk, k)
         /\ UNCHANGED <<websockets, conn>>
    ELSE LET rest == {w \in websockets : w > b.pos}
         IN IF rest = {}
            THEN /\ websockets' = websockets \ b.dead
                 /\ tasks' = Without(tk, k)
                 /\ UNCHANGED conn
            ELSE LET w == Min(rest)
                     sent == conn[w].client = "open"
                 IN /\ tasks' = [tk EXCEPT ![k].pos = w,
                                           ![k].dead = IF sent THEN @ ELSE @ \cup {w}]
                    /\ conn' = IF sent
                               THEN [conn EXCEPT ![w].recv =
                                       Append(@, [n |-> b.entry.n, live |-> TRUE])]
                               ELSE conn
                    /\ UNCHANGED websockets

\* the loop starts the oldest scheduled broadcast: dead = set(), the iterator
\* over self._websockets, and the first pass of the for loop
BroadcastStart ==
    /\ loop = "open"
    /\ ready # << >>
    /\ LET e == Head(ready)
           b == [entry |-> e, pos |-> 0, size |-> Cardinality(websockets), dead |-> {}]
       IN BroadcastPass(e.n, b, (e.n :> b) @@ tasks)
    /\ ready' = Tail(ready)
    /\ UNCHANGED <<instvars, appvars, jobvars, history, emitted, em>>

\* a broadcast suspended in "await ws.send_str(data)" goes on
BroadcastResume(k) ==
    /\ loop = "open"
    /\ k \in DOMAIN tasks
    /\ BroadcastPass(k, tasks[k], tasks)
    /\ UNCHANGED <<instvars, appvars, jobvars, history, emitted, ready, em>>

\* ws_logs lines 19-30: after ws.prepare, add_websocket(ws); with history=true
\* the entries of get_recent(limit, tag) are taken to be replayed
WsConnect(w, hist, limit) ==
    /\ loop = "open"
    /\ conn[w].pc = "none"
    /\ websockets' = websockets \cup {w}
    /\ LET snap == IF hist THEN get_recent(history, limit, NoTag) ELSE << >>
       IN conn' = [conn EXCEPT ![w] = [pc |-> IF snap = << >> THEN "live" ELSE "replay",
                                        client |-> "open", snap |-> snap,
                                        recv |-> << >>, since |-> emitted]]
    /\ UNCHANGED <<instvars, appvars, jobvars, history, emitted, ready, tasks, em>>

\* ws_logs lines 30-31: await ws.send_str(...) of the next replayed entry; the
\* loop is not inside a try, a send that raises ends the handler with the
\* socket still in the set
WsReplaySend(w) ==
    /\ loop = "open"
    /\ conn[w].pc = "replay"
    /\ conn' = [conn EXCEPT ![w] =
                  IF @.client = "open"
                  THEN [@ EXCEPT !.recv = Append(@, [n |-> Head(conn[w].snap).n,
                                                     live |-> FALSE]),
                                 !.snap = Tail(@),
                                 !.pc = IF Tail(conn[w].snap) = << >> THEN "live"
                                        ELSE "replay"]
                  ELSE [@ EXCEPT !.pc = "failed", !.snap = << >>]]
    /\ UNCHANGED <<instvars, appvars, jobvars, history, emitted, websockets, ready, tasks, em>>

\* the client goes away
ClientClose(w) ==
    /\ conn[w].client = "open"
    /\ conn' = [conn EXCEPT ![w].client = "closed"]
    /\ UNCHANGED <<instvars, appvars, jobvars, history, emitted, websockets, ready, tasks, em>>

\* ws_logs lines 33-37: "async for msg in ws" ends when the client is gone;
\* finally: remove_websocket(ws)
WsDisconnect(w) ==
    /\ loop = "open"
    /\ conn[w].pc = "live"
    /\ conn[w].client = "closed"
    /\ websockets' = websockets \ {w}
    /\ conn' = [conn EXCEPT ![w].pc = "closed"]
    /\ UNCHANGED <<instvars, appvars, jobvars, history, emitted, ready, tasks, em>>

\* the client goes away and ws_logs leaves "async for msg in ws" and runs
\* remove_websocket(ws) (lines 33-37) before the loop runs anything else
WsLeave(w) ==
    /\ loop = "open"
    /\ conn[w].pc = "live"
    /\ conn[w].client = "open"
    /\ websockets' = websockets \ {w}
    /\ conn' = [conn EXCEPT ![w].pc = "closed", ![w].client = "closed"]
    /\ UNCHANGED <<instvars, appvars, jobvars, history, emitted, ready, tasks, em>>

\* GET /api/logs?limit=..&tag=.. (api/routes/logs.py lines 8-14): the response
\* carries get_recent(limit, tag) and its length; "at" is the number of entries
\* emitted when the response was made
Tags == {"system", "install"}

get_logs(limit, tag) ==
    /\ loop = "open"
    /\ LET entries == get_recent(history, limit, tag)
       IN resp' = [limit |-> limit, tag |-> tag, entries |-> entries,
                   count |-> Len(entries), at |-> emitted]
    /\ UNCHANGED <<instvars, jobvars, logvars, found, settings, put, made, answered>>


Next ==
    \/ \E t \in Threads, d \in Devs, p \in AddPorts(TargetPorts, MaxFillers) :
            AddInstance(t, InstanceConfig(d, p, "normal"))
    \/ \E t \in Threads, id \in Ids(TargetPorts) : RemoveInstance(t, id)
    \/ \E t \in Threads : RemovePop(t)
    \/ \E t \in Threads, id \in Ids(TargetPorts) : StartInstance(t, id)
    \/ \E t \in Threads : StartCheck(t)
    \/ \E t \in Threads : StartSpawn(t)
    \/ \E t \in Threads : StartWait(t)
    \/ \E t \in Threads : StartFin(t)
    \/ \E t \in Threads, id \in Ids(TargetPorts) : StopInstance(t, id)
    \/ \E t \in Threads : StopStatus(t)
    \/ \E t \in Threads : StopAll(t)
    \/ \E t \in Threads : StopAllNext(t)
    \/ \E t \in Threads : StopCheck(t)
    \/ \E t \in Threads : StopKill(t)
    \/ \E t \in Threads : StopClear(t)
    \/ \E o \in DOMAIN heap : ChildExit(o)
    \/ \E o \in DOMAIN heap : LeakedChildExit(o)
    \/ \E t \in Threads : Return(t)

Spec == Init /\ [][Next]_vars

\* The instance manager behind the HTTP handlers: every call is made by a
\* handler, on the event-loop thread or through the executor.
NextHandlers ==
    \/ \E t \in Threads, d \in Devs, p \in AddPorts(TargetPorts, MaxFillers) :
            HandleAdd(t, d, p, "normal")
    \/ \E t \in Threads, id \in Ids(TargetPorts) : HandleStart(t, id)
    \/ \E t \in Threads : StartCheck(t)
    \/ \E t \in Threads : StartSpawn(t)
    \/ \E t \in Threads : StartWait(t)
    \/ \E t \in Threads : StartFin(t)
    \/ \E t \in Threads : HandleStopAll(t)
    \/ \E t \in Threads : put_target(t, "/ext1")
    \/ \E t \in Threads : post_reset_target(t)
    \/ \E t \in Threads : StopAllNext(t)
    \/ \E t \in Threads : StopCheck(t)
    \/ \E t \in Threads : StopKill(t)
    \/ \E t \in Threads : StopClear(t)
    \/ \E o \in DOMAIN heap : ChildExit(o)
    \/ \E t \in Threads : Return(t)

SpecHandlers == Init /\ [][NextHandlers]_vars

\* The instances added over HTTP with every device kind and every vram_mode,
\* valid or not, then started and removed.
AddDevs == {"0", "cpu"}
VramInputs == {"normal", "low", "cpu", "auto"}
AddIds == {_make_id(InstanceConfig(d, p, "normal")) : d \in AddDevs, p \in TargetPorts}

NextAdd ==
    \/ \E t \in Threads, d \in AddDevs, p \in TargetPorts \cup {1023},
          v \in VramInputs : HandleAdd(t, d, p, v)
    \/ \E t \in Threads, id \in AddIds : HandleStart(t, id)
    \/ \E t \in Threads : StartCheck(t)
    \/ \E t \in Threads : StartSpawn(t)
    \/ \E t \in Threads : StartWait(t)
    \/ \E t \in Threads : StartFin(t)
    \/ \E t \in Threads, id \in AddIds : LoopFree /\ RemoveInstance(t, id)
    \/ \E t \in Threads : StopCheck(t)
    \/ \E t \in Threads : StopKill(t)
    \/ \E t \in Threads : StopClear(t)
    \/ \E t \in Threads : RemovePop(t)
    \/ \E o \in DOMAIN heap : ChildExit(o)
    \/ \E t \in Threads : Return(t)

SpecAdd == Init /\ [][NextAdd]_vars

\* The settings file written by the handlers: PUT /api/settings with every
\* mapping of SettingsInputs, the engine target set to every path and reset.
Paths == {"/ext1", "/ext2", COMFYUI_DIR}
SettingsInputs ==
    { "theme" :> PyStr("dark"),
      "theme" :> PyNone,
      "comfyui_dir" :> PyStr("/ext1"),
      ("theme" :> PyStr("light")) @@ ("extra_model_dirs" :> PyList(<<"/m1">>)),
      "extra_model_dirs" :> PyList(<<"/m1", "/m2">>) }

NextSettings ==
    \/ \E data \in SettingsInputs : put_settings(data)
    \/ \E t \in Threads, path \in Paths : put_target(t, path)
    \/ \E t \in Threads : post_reset_target(t)

SpecSettings == Init /\ [][NextSettings]_vars

\* The registry with instances on the ports around PORT_RANGE_END and
\* next_available_port called with base ports below, at and above it.
EndPorts == (PORT_RANGE_END - MaxBelowEnd) .. (PORT_RANGE_END + MaxAboveEnd)
BasePorts == (PORT_RANGE_END - MaxBelowEnd - 1) .. (PORT_RANGE_END + MaxBaseAbove)

NextPorts ==
    \/ \E t \in Threads, d \in Devs, p \in EndPorts :
            AddInstance(t, InstanceConfig(d, p, "normal"))
    \/ \E t \in Threads, id \in Ids(EndPorts) : RemoveInstance(t, id)
    \/ \E t \in Threads : RemovePop(t)
    \/ \E t \in Threads : Return(t)
    \/ \E b \in BasePorts : next_available_port(b)

SpecPorts == Init /\ [][NextPorts]_vars

\* The registry alone: add_instance and remove_instance calls over the whole
\* port range, up to the instance limit, with no instance ever started.
NextRegistry ==
    \/ \E t \in Threads, d \in Devs, p \in AddPorts(RegTargetPorts, NumPorts) :
            AddInstance(t, InstanceConfig(d, p, "normal"))
    \/ \E t \in Threads, id \in Ids(RegTargetPorts) : RemoveInstance(t, id)
    \/ \E t \in Threads : RemovePop(t)
    \/ \E t \in Threads : Return(t)

SpecRegistry == Init /\ [][NextRegistry]_vars

\* The job table and the closures of a few jobs, with every interleaving of
\* the handler thread, the executor threads and the closing of the loop.
NextJobs ==
    \/ on_startup
    \/ \E id \in JobIds, op \in Operations, t \in Times :
            created < MaxCreated /\ CreateJob(id, op, t)
    \/ CreateReturn
    \/ \E u \in DOMAIN run, t \in Times : PoolStart(u, t)
    \/ \E u \in DOMAIN run : EmitCheck(u)
    \/ \E u \in DOMAIN run, t \in Times : EmitCall(u, t)
    \/ \E u \in DOMAIN run, out \in {"true", "false", "raise"}, t \in Times : Work(u, out, t)
    \/ LoopClose

SpecJobs == Init /\ [][NextJobs]_vars

\* The job table up to and beyond MAX_JOBS records.  uuid4()[:8] returns a
\* value not seen before or, for the first jobs and once the table is full,
\* the key at one of the first table positions; the executor picks up the
\* closures of the first jobs only (the others stay queued behind them) and
\* the clock stands still once those jobs exist.
TableIds ==
    {created + 1}
    \cup (IF created <= MaxRun \/ Len(_jobs) >= MAX_JOBS
          THEN {jobobj[_jobs[i]].job_id : i \in 1 .. Min({MaxCollide, Len(_jobs)})}
          ELSE {})
TableOps == IF created < MaxRun THEN Operations ELSE {"install"}
TableTimes == IF created < MaxRun THEN Times ELSE {now}

NextJobTable ==
    \/ on_startup
    \/ \E id \in TableIds, op \in TableOps, t \in TableTimes :
            created < MAX_JOBS + MaxOver /\ CreateJob(id, op, t)
    \/ CreateReturn
    \/ \E u \in DOMAIN run \cap (1 .. MaxRun), t \in TableTimes : PoolStart(u, t)
    \/ \E u \in DOMAIN run : EmitCheck(u)
    \/ \E u \in DOMAIN run, t \in TableTimes : EmitCall(u, t)
    \/ \E u \in DOMAIN run, out \in {"true", "false", "raise"}, t \in TableTimes :
            Work(u, out, t)

SpecJobTable == Init /\ [][NextJobTable]_vars

\* The log hub with emitting threads, broadcast tasks and WebSocket clients.
NextLog ==
    \/ on_startup
    \/ \E t \in Emitters : emitted < MaxEmits /\ LogEmit(t, "system")
    \/ \E t \in Emitters : LogSchedule(t)
    \/ BroadcastStart
    \/ \E k \in DOMAIN tasks : BroadcastResume(k)
    \/ \E w \in WsIds, hist \in BOOLEAN, limit \in 0 .. MaxLimit : WsConnect(w, hist, limit)
    \/ \E w \in WsIds : WsReplaySend(w)
    \/ \E w \in WsIds : ClientClose(w)
    \/ \E w \in WsIds : WsDisconnect(w)

SpecLog == Init /\ [][NextLog]_vars

\* The hub with subscribers that come and go cleanly: a client that goes away
\* is out of the set before a broadcast tries to send to it, so no send raises
\* and the set changes only through add_websocket and remove_websocket.
NextChurn ==
    \/ on_startup
    \/ \E t \in Emitters : emitted < MaxEmits /\ LogEmit(t, "system")
    \/ \E t \in Emitters : LogSchedule(t)
    \/ BroadcastStart
    \/ \E k \in DOMAIN tasks : BroadcastResume(k)
    \/ \E w \in WsIds, hist \in BOOLEAN, limit \in 0 .. MaxLimit : WsConnect(w, hist, limit)
    \/ \E w \in WsIds : WsReplaySend(w)
    \/ \E w \in WsIds : WsLeave(w)

SpecChurn == Init /\ [][NextChurn]_vars

\* The history read over HTTP: entries of two tags are emitted and
\* GET /api/logs is answered for every limit and tag filter.
NextRecent ==
    \/ on_startup
    \/ \E t \in Emitters, tag \in Tags : emitted < MaxRecent /\ LogEmit(t, tag)
    \/ \E t \in Emitters : LogSchedule(t)
    \/ BroadcastStart
    \/ \E limit \in 0 .. MaxQueryLimit, tag \in Tags \cup {NoTag} : get_logs(limit, tag)

SpecRecent == Init /\ [][NextRecent]_vars

\* The history alone, filled beyond MAX_HISTORY by emits with no loop attached.
NextHistory ==
    \E t \in Emitters : emitted < MAX_HISTORY + MaxOverHist /\ LogEmit(t, "system")

SpecHistory == Init /\ [][NextHistory]_vars

\* The id generation of add_instance (lines 59-65) as a function of the keys of
\* self._instances and of the config: the keys are any set of base ids and
\* suffixed ids, and each behaviour generates one id.
IdConfigs == {InstanceConfig(d, p, "normal") :
                 d \in AddDevs, p \in PORT_RANGE_START .. (PORT_RANGE_START + NumIdPorts - 1)}
KeyPool == {IdString(c) : c \in IdConfigs}
           \cup {Suffixed(IdString(c), n) : c \in IdConfigs, n \in 2 .. MaxTaken}

MakeId(keys, cfg) ==
    /\ made = NoMade
    /\ made' = [keys |-> keys, cfg |-> cfg,
                id |-> UniqueIdString(keys, IdString(cfg), IdString(cfg), 2)]
    /\ UNCHANGED <<instvars, jobvars, logvars, resp, found, settings, put, answered>>

NextIds == \E keys \in SUBSET KeyPool, cfg \in IdConfigs : MakeId(keys, cfg)

SpecIds == Init /\ [][NextIds]_vars

\* The handlers that validate before they open a job.  uuid4()[:8] returns a
\* value not seen before, the clock stands still and the loop stays open.
IdLists(known) ==
    UNION {[1 .. n -> known \cup {"unknown"}] : n \in 0 .. MaxIds}

NextFacade ==
    \/ on_startup
    \/ \E b \in BOOLEAN :
          created < MaxCreated /\ post_install_sage(b, created + 1, now)
    \/ \E b \in BOOLEAN :
          created < MaxCreated /\ post_update(b, created + 1, now)
    \/ \E t \in Threads, b \in BOOLEAN : post_purge(t, b)
    \/ \E ids \in IdLists(MODELS), on_disk \in SUBSET MODELS :
          created < MaxCreated /\ post_download(ids, on_disk, created + 1, now)
    \/ \E ids \in IdLists(CUSTOM_NODES) :
          created < MaxCreated /\ post_install(ids, created + 1, now)
    \/ CreateReturn
    \/ \E u \in DOMAIN run : PoolStart(u, now)
    \/ \E u \in DOMAIN run : EmitCheck(u)
    \/ \E u \in DOMAIN run : EmitCall(u, now)
    \/ \E u \in DOMAIN run, out \in {"true", "false", "raise"} : Work(u, out, now)

SpecFacade == Init /\ [][NextFacade]_vars

----------------------------------------------------------------------------
\* Properties

AddReturned(t) == th[t].pc = "idle" /\ th'[t].pc = "done" /\ th'[t].op = "add"
Count(insts) == Cardinality(DOMAIN insts)

\* C1: no two registered instances have the same config.port, in every
\* reachable state and under every interleaving of the manager's calls.
C1_PortUnique ==
    \A k1, k2 \in DOMAIN instances :
        k1 # k2 => heap[instances[k1]].config.port # heap[instances[k2]].config.port

\* two instances are registered while one call has added one and another call
\* is still under way
C1_Witness ==
    /\ Count(instances) >= 2
    /\ \E t, u \in Threads :
          /\ t # u
          /\ th[t].pc = "done" /\ th[t].op = "add" /\ th[t].ret.ok
          /\ th[u].pc \notin {"idle", "done"}

\* C2: the number of registered instances never exceeds MAX_INSTANCES, also
\* with add_instance and remove_instance calls running concurrently.
C2_CountBound == Count(instances) <= MAX_INSTANCES

\* the registry is full, an add has been refused and a remove is under way
C2_Witness ==
    /\ Count(instances) = MAX_INSTANCES
    /\ \E t, u \in Threads :
          /\ th[t].pc = "done" /\ th[t].op = "add" /\ th[t].ret = LimitError
          /\ th[u].pc = "remove_pop"

\* C3: an add_instance call with a port no instance holds succeeds as long as
\* fewer than MAX_INSTANCES instances are registered (so MAX_INSTANCES adds
\* with distinct ports from the empty registry all succeed), and an add called
\* with MAX_INSTANCES instances registered fails with the instance-limit error
\* and leaves the registry unchanged.
C3_AddUpToLimit ==
    [][\A t \in Threads :
          AddReturned(t) =>
            LET cfg == th'[t].cfg
                r == th'[t].ret
            IN /\ (Count(instances) < MAX_INSTANCES /\ cfg.port \notin UsedPorts)
                    => /\ r.ok
                       /\ r.id \notin DOMAIN instances
                       /\ DOMAIN instances' = DOMAIN instances \cup {r.id}
                       /\ heap'[instances'[r.id]].config = cfg
               /\ Count(instances) >= MAX_INSTANCES
                    => /\ r = LimitError
                       /\ instances' = instances]_vars

\* MAX_INSTANCES instances are registered and an add with a further, unused
\* port has been refused with the limit error
C3_Witness ==
    /\ Count(instances) = MAX_INSTANCES
    /\ \E t \in Threads :
          /\ th[t].pc = "done" /\ th[t].op = "add" /\ th[t].ret = LimitError
          /\ th[t].cfg.port \notin UsedPorts

\* C4 (as claimed): add_instance with the port of a registered instance fails
\* with the port-in-use error naming the holder (HTTP 400) and leaves the
\* registry unchanged.
C4_PortInUse_Original ==
    [][\A t \in Threads :
          (AddReturned(t) /\ th'[t].cfg.port \in UsedPorts) =>
            /\ th'[t].ret.err = PortInUseError(NoId).err
            /\ th'[t].ret.id \in DOMAIN instances
            /\ heap[instances[th'[t].ret.id]].config.port = th'[t].cfg.port
            /\ PostInstancesStatus(th'[t].ret) = 400
            /\ instances' = instances]_vars

\* C4 (amended): add_instance with the port of a registered instance fails
\* with HTTP 400 and leaves the registry unchanged; the error is the
\* port-in-use error naming the holder when fewer than MAX_INSTANCES instances
\* are registered, and the instance-limit error when MAX_INSTANCES are.
C4_PortInUse ==
    [][\A t \in Threads :
          (AddReturned(t) /\ th'[t].cfg.port \in UsedPorts) =>
            /\ ~th'[t].ret.ok
            /\ PostInstancesStatus(th'[t].ret) = 400
            /\ instances' = instances
            /\ Count(instances) >= MAX_INSTANCES => th'[t].ret = LimitError
            /\ Count(instances) < MAX_INSTANCES =>
                 /\ th'[t].ret.err = PortInUseError(NoId).err
                 /\ th'[t].ret.id \in DOMAIN instances
                 /\ heap[instances[th'[t].ret.id]].config.port = th'[t].cfg.port]_vars

\* an add has been refused with the port-in-use error naming a registered holder
C4_Witness ==
    \E t \in Threads :
        /\ th[t].pc = "done" /\ th[t].op = "add"
        /\ th[t].ret.err = PortInUseError(NoId).err
        /\ th[t].ret.id \in DOMAIN instances
        /\ heap[instances[th[t].ret.id]].config.port = th[t].cfg.port

\* C5 (as claimed): two concurrent start calls for one instance spawn at most
\* one child: no handle ever has more than one live child, owned or lost.
C5_SingleChild ==
    \A o \in DOMAIN heap : LiveChildren(heap, o) <= 1

\* C6 (as claimed): a start and a stop of one instance that both returned true
\* leave the instance as one of the two serial orders does: stopped with no
\* live child (start, then stop) or with status running (stop, then start).
C6_StartStopSerial ==
    \A t, u \in Threads :
        ( /\ th[t].pc = "done" /\ th[t].op = "stop" /\ th[t].ret.ok
          /\ th[u].pc = "done" /\ th[u].op = "start" /\ th[u].ret.ok
          /\ th[t].id = th[u].id
          /\ th[t].id \in DOMAIN instances )
        => LET s == heap[instances[th[t].id]]
           IN \/ s.status = "stopped" /\ s.process # "alive" /\ s.leaked = 0
              \/ s.status = "running" /\ s.leaked = 0

\* C7 (as claimed): a registered instance whose child is not alive does not
\* have status running.
C7_NotAliveNotRunning ==
    \A k \in DOMAIN instances :
        heap[instances[k]].process # "alive" => heap[instances[k]].status # "running"

\* C8 (as claimed): an instance's status changes only along
\* stopped -> starting -> (running | error) -> stopped, with error -> starting
\* for a retry.
StatusPath == { <<"stopped", "starting">>, <<"error", "starting">>,
                <<"starting", "running">>, <<"starting", "error">>,
                <<"running", "stopped">>, <<"error", "stopped">> }

C8_StatusPath ==
    [][\A k \in DOMAIN instances \cap DOMAIN instances' :
          LET a == heap[instances[k]].status
              b == heap'[instances'[k]].status
          IN (instances'[k] = instances[k] /\ a # b) => <<a, b>> \in StatusPath]_vars

\* C9 (as claimed): when stop_all has returned, no registered instance is running.
C9_StopAllStopsAll ==
    \A t \in Threads :
        (th[t].pc = "done" /\ th[t].op = "stop_all")
        => \A k \in DOMAIN instances : ~is_running(heap, instances[k])

\* C10 (as claimed): when a start_instance call that was in flight when
\* stop_all was called and that stop_all have both returned, the instance has
\* no live child.
C10_StopAllSupersedes ==
    \A t, u \in Threads :
        ( /\ th[t].pc = "done" /\ th[t].op = "stop_all"
          /\ th[u].pc = "done" /\ th[u].op = "start" /\ th[u].sup )
        => \A o \in DOMAIN heap :
              heap[o].instance_id = th[u].id => LiveChildren(heap, o) = 0

\* C11 (as claimed): when remove_instance deletes the entry of a registered id
\* and returns true, the id is absent from the registry and the instance that
\* was registered under it has no live child.
C11_RemoveStopsChild ==
    [][\A t \in Threads :
          ( /\ th[t].pc = "remove_pop" /\ th'[t].pc = "done"
            /\ th[t].id \in DOMAIN instances )
          => /\ th'[t].ret.ok
             /\ th[t].id \notin DOMAIN instances'
             /\ LiveChildren(heap, instances[th[t].id]) = 0]_vars

\* C12 (as claimed): a job's status changes only along
\* pending -> running -> (completed | failed): no step moves a job out of a
\* terminal status or back to an earlier one.
JobPath == { <<"pending", "running">>, <<"running", "completed">>,
             <<"running", "failed">> }

C12_JobStatusMonotone ==
    [][\A u \in DOMAIN jobobj \cap DOMAIN jobobj' :
          jobobj[u].status # jobobj'[u].status
          => <<jobobj[u].status, jobobj'[u].status>> \in JobPath]_vars

\* C13 (as claimed): a job opened by a handler enters running once and a
\* terminal status once and never changes afterwards (a record that is
\* completed or failed stays exactly as it is, a record that has started keeps
\* its started_at), and completed_at >= started_at >= created_at.
TimestampsOrdered(j) ==
    /\ j.started_at # None => j.started_at >= j.created_at
    /\ j.completed_at # None => (j.started_at # None /\ j.completed_at >= j.started_at)

C13_JobOnceEach ==
    /\ [](\A u \in DOMAIN jobobj : TimestampsOrdered(jobobj[u]))
    /\ [][\A u \in DOMAIN jobobj \cap DOMAIN jobobj' :
             /\ jobobj[u].status \in Terminal => jobobj'[u] = jobobj[u]
             /\ jobobj[u].status = "running"
                => (jobobj'[u].status # "pending"
                    /\ jobobj'[u].started_at = jobobj[u].started_at)]_vars

\* C14 (as claimed): no error escapes a worker closure, and a closure that has
\* ended leaves its job completed or failed, so that no job stays running
\* after its worker is gone.
C14_WorkerEndsJob ==
    \A u \in DOMAIN run :
        run[u] \in Ended => (run[u] = "returned" /\ jobobj[u].status \in Terminal)

\* C15 (as claimed): a record that leaves the job table is completed or
\* failed, and no completed or failed record that stays in the table is older
\* (by created_at) than one that leaves.
InTable(tab, u) == \E i \in 1 .. Len(tab) : tab[i] = u

C15_PruneOnlyTerminal ==
    [][\A i \in 1 .. Len(_jobs) :
          ~InTable(_jobs', _jobs[i])
          => /\ jobobj[_jobs[i]].status \in Terminal
             /\ \A j \in 1 .. Len(_jobs') :
                   (InTable(_jobs, _jobs'[j]) /\ jobobj[_jobs'[j]].status \in Terminal)
                   => jobobj[_jobs[i]].created_at <= jobobj[_jobs'[j]].created_at]_vars

\* C16 (as claimed): when create_job returns with more than MAX_JOBS records
\* in the table, every record in the table is pending or running.
PruneReturned == req.pc = "prune" /\ req'.pc = "idle"

C17_FreshJobId ==
    [][(req.pc = "idle" /\ req'.pc = "prune")
       => \A i \in 1 .. Len(_jobs) :
             jobobj[_jobs[i]].job_id # jobobj'[req'.job].job_id]_vars

\* C18: after any sequence of emits the history holds at most MAX_HISTORY
\* entries and is the last min(n, MAX_HISTORY) of the n entries appended, in
\* the order of their append.
C18_HistoryLastN ==
    LET k == IF emitted < MAX_HISTORY THEN emitted ELSE MAX_HISTORY
    IN /\ Len(history) = k
       /\ Len(history) <= MAX_HISTORY
       /\ \A i \in 1 .. k : history[i].n = emitted - k + i

\* more than MAX_HISTORY entries have been appended and the oldest are gone
C18_Witness ==
    /\ emitted > MAX_HISTORY
    /\ Len(history) = MAX_HISTORY
    /\ history[1].n = emitted - MAX_HISTORY + 1
    /\ history[MAX_HISTORY].n = emitted

\* C19 (as claimed): every subscriber receives the broadcast frames in the
\* order in which their entries were appended to the history.
C19_BroadcastOrder ==
    \A w \in WsIds :
        \A i, j \in 1 .. Len(conn[w].recv) :
            (i < j /\ conn[w].recv[i].live /\ conn[w].recv[j].live)
            => conn[w].recv[i].n < conn[w].recv[j].n

\* C20 (as claimed): a client receives every entry at most once, no live frame
\* before a replayed one, and, once no emit and no broadcast is under way,
\* every entry appended after its connect.
HubQuiet == ready = << >> /\ DOMAIN tasks = {} /\ \A t \in Emitters : em[t].pc = "idle"

C20_ReplayThenLive ==
    \A w \in WsIds :
        LET r == conn[w].recv
        IN /\ \A i, j \in 1 .. Len(r) : i < j => r[i].n # r[j].n
           /\ \A i, j \in 1 .. Len(r) : (i < j /\ r[i].live) => r[j].live
           /\ (HubQuiet /\ conn[w].pc = "live" /\ conn[w].client = "open")
              => \A n \in (conn[w].since + 1) .. emitted : \E i \in 1 .. Len(r) : r[i].n = n

\* C21 (as claimed): two clients subscribed with history=false are sent no
\* entry emitted before their own connect and, once no emit and no broadcast is
\* under way, have received the same ordered sequence of the entries emitted
\* after both had connected.
NoReplay(w) ==
    /\ conn[w].pc \in {"live", "closed"}
    /\ \A i \in 1 .. Len(conn[w].recv) : conn[w].recv[i].live

FramesAfter(w, m) == SelectSeq(conn[w].recv, LAMBDA f : f.n > m)

C21_SameLiveSequence ==
    \A w1, w2 \in WsIds :
        (w1 # w2 /\ NoReplay(w1) /\ NoReplay(w2))
        => /\ \A i \in 1 .. Len(conn[w1].recv) : conn[w1].recv[i].n > conn[w1].since
           /\ (HubQuiet /\ conn[w1].pc = "live" /\ conn[w2].pc = "live"
               /\ conn[w1].client = "open" /\ conn[w2].client = "open")
              => LET m == IF conn[w1].since > conn[w2].since THEN conn[w1].since
                          ELSE conn[w2].since
                 IN FramesAfter(w1, m) = FramesAfter(w2, m)

\* C22 (as claimed): a broadcast ends only after a send to every subscriber in
\* the set has been tried, whichever sends raised, and the subscribers whose
\* send raised are out of the set when it ends.
C22_BroadcastBestEffort ==
    [][\A k \in DOMAIN tasks :
            k \notin DOMAIN tasks'
            => /\ \A w \in websockets : w <= tasks[k].pos
               /\ websockets' \cap tasks[k].dead = {}]_vars

\* C23: emit never waits on a subscriber.  Every emit has appended its entry to
\* the history before anything else, an emit that is to schedule its broadcast
\* can always do so and return, whatever the broadcasts under way and the
\* subscribers are doing, and an idle thread can always emit; with no loop
\* attached every emit has only appended to the history: nothing is scheduled
\* and no broadcast exists.
C23_EmitNeverWaits ==
    /\ Len(history) = emitted
    /\ \A t \in Emitters :
          /\ em[t].pc = "idle" => ENABLED LogEmit(t, "system")
          /\ em[t].pc = "call"
             => /\ ENABLED LogSchedule(t)
                /\ \E i \in 1 .. Len(history) : history[i] = em[t].entry
    /\ loop = "unset"
       => /\ ready = << >>
          /\ DOMAIN tasks = {}
          /\ \A t \in Emitters : em[t].pc = "idle"

\* an emit is about to schedule its broadcast while an earlier broadcast is
\* suspended in a send to a subscriber
C23_Witness ==
    \E t \in Emitters, k \in DOMAIN tasks :
        /\ em[t].pc = "call"
        /\ em[t].entry.n > k
        /\ tasks[k].pos \in websockets
        /\ em[t].entry \in {history[i] : i \in 1 .. Len(history)}

\* C24 (as claimed): the response of get_recent(limit, tag), limit >= 0, holds
\* at most limit entries: the limit most recent entries of the history with
\* the tag (of the whole history when no tag is given), in emission order.
Tagged(h, tag) == SelectSeq(h, LAMBDA e : tag = NoTag \/ e.tag = tag)

LastN(q, n) == IF n >= Len(q) THEN q ELSE SubSeq(q, Len(q) - n + 1, Len(q))

C24_RecentAtMostLimit ==
    resp # NoResp
    => /\ Len(resp.entries) <= resp.limit
       /\ resp.entries = LastN(Tagged(SubSeq(history, 1, resp.at), resp.tag), resp.limit)

\* C25 (as claimed): no manager call made on the event-loop thread is ever
\* spawning a child, polling its readiness or killing a process tree.
C25_LoopNeverBlocks == \A t \in Threads : th[t].onloop => th[t].pc \notin Blocking

\* C26 (as claimed): a registered instance's status becomes error only when a
\* start attempt on it ends in failure, and an instance in status error leaves
\* it only through a start (no stop call and no stop_all turns error into
\* stopped).
C26_ErrorSticky ==
    [][\A k \in DOMAIN instances \cap DOMAIN instances' :
          LET o == instances[k]
          IN (instances'[k] = o /\ o \in DOMAIN heap')
             => /\ (heap[o].status = "error" /\ heap'[o].status # "error")
                   => heap'[o].status \in {"starting", "running"}
                /\ (heap[o].status # "error" /\ heap'[o].status = "error")
                   => \E t \in Threads : /\ th[t].pc = "start_fin"
                                         /\ th[t].ref = o
                                         /\ ~th[t].ok
                                         /\ th'[t].pc = "done"]_vars

\* C27 (as claimed): next_available_port(base) returns the smallest port of
\* base .. PORT_RANGE_END that no registered instance holds, and
\* PORT_RANGE_END + 1 when there is none; the result is a port held by no
\* instance or a value above PORT_RANGE_END.
C27_NextPort ==
    found # NoFound
    => LET free == {p \in found.base_port .. PORT_RANGE_END : p \notin found.used}
       IN /\ found.port = IF free # {} THEN Min(free) ELSE PORT_RANGE_END + 1
          /\ found.port \notin found.used \/ found.port > PORT_RANGE_END

\* C28: every instance object added through POST /api/instances with
\* gpu_device "cpu" has vram_mode "cpu", when it is added and in every later
\* state, registered or not; and the handler stores the request's vram_mode
\* for every other device.
C28_CpuImpliesCpuMode ==
    /\ \A o \in DOMAIN heap :
          heap[o].config.gpu_device = "cpu" => heap[o].config.vram_mode = "cpu"
    /\ \A o \in DOMAIN heap : heap[o].config.vram_mode \in VRAM_MODES

\* a cpu instance is registered and has been started
C28_Witness ==
    \E k \in DOMAIN instances :
        /\ heap[instances[k]].config.gpu_device = "cpu"
        /\ heap[instances[k]].config.vram_mode = "cpu"
        /\ heap[instances[k]].status = "running"

\* C29: after save_settings(d), load_settings() holds k = v for every pair of
\* d and, with the value it had before the call, every key of the earlier
\* settings that d does not overwrite, and no other key.
C29_SaveThenLoad ==
    put # NoPut
    => LET cur == load_settings(settings)
           old == load_settings(put.old)
       IN /\ \A k \in DOMAIN put.data : k \in DOMAIN cur /\ cur[k] = put.data[k]
          /\ \A k \in DOMAIN old \ DOMAIN put.data : k \in DOMAIN cur /\ cur[k] = old[k]
          /\ DOMAIN cur = DOMAIN old \cup DOMAIN put.data

\* a save that overwrote one key and kept another one written earlier
C29_Witness ==
    /\ put # NoPut
    /\ \E k \in DOMAIN put.data :
          k \in DOMAIN load_settings(put.old) /\ load_settings(put.old)[k] # put.data[k]
    /\ DOMAIN load_settings(put.old) \ DOMAIN put.data # {}

StartReturns(t) == th[t].pc = "start_fin" /\ th'[t].pc = "done"

\* the status start_instance leaves behind agrees with the value it returns
StatusFollows(t) ==
    th[t].ref \in DOMAIN heap' =>
        heap'[th[t].ref].status = IF th'[t].ret.ok THEN "running" ELSE "error"

StopReturns(t) ==
    /\ th[t].pc \in {"stop_check", "stop_kill", "stop_clear"}
    /\ th'[t].pc = AfterStop(th[t].op)

\* C32: when stop_server returns true the handle has no live child and its
\* child field is cleared (self.process is None); a stop that cannot confirm
\* the child's death returns false.
C32_StopClearsHandle ==
    [][\A t \in Threads : (StopReturns(t) /\ th[t].ref \in DOMAIN heap') =>
          /\ th'[t].ok => heap'[th[t].ref].process = "none"
          /\ (th[t].pc = "stop_kill" /\ heap'[th[t].ref].process = "alive")
                => ~th'[t].ok]_vars

\* ---- a start that cannot spawn ----
\* the step in which start_server gives up on thread t with an "Error: ..."
\* progress message (lines 82-85, 103-106, 196-199)
SpawnFails(t) == th[t].pc = "start_check" /\ th'[t].msg = "Error"

\* C33: when start cannot spawn the child it reports the failure through
\* progress_sink and returns false, and it leaves the handle without a child:
\* is_running stays false, no process is created, and start_instance returns
\* false with status error.
C33_SpawnFailure ==
    [][\A t \in Threads :
          /\ SpawnFails(t) =>
                /\ ~th'[t].ok /\ th'[t].pc = "start_fin"
                /\ ~is_running(heap, th[t].ref) /\ ~is_running(heap', th[t].ref)
                /\ heap' = heap
          /\ (StartReturns(t) /\ th[t].msg = "Error") =>
                /\ th'[t].ret = BoolRet(FALSE)
                /\ th[t].ref \in DOMAIN heap' => heap'[th[t].ref].status = "error"]_vars

\* a start has failed to spawn on a handle that has never had a child, and
\* nothing runs
C33_Witness ==
    \E t \in Threads :
        /\ th[t].pc = "start_fin" /\ th[t].msg = "Error" /\ ~th[t].ok
        /\ heap[th[t].ref].process = "none"
        /\ TotalLive = 0

\* ---- the id add_instance returns ----
\* C34: add_instance returns the id "cpu_<port>" when gpu_device is "cpu" and
\* "gpu<index>_<port>" otherwise; if that id is already registered it returns
\* the id extended by the suffix _N for the smallest N >= 2 whose id is not
\* registered; the returned id is never the id of a registered instance.
C34_IdFormat ==
    /\ IdString(InstanceConfig("cpu", 8188, "normal")) = "cpu_8188"
    /\ IdString(InstanceConfig("0", 8189, "normal")) = "gpu0_8189"
    /\ made # NoMade =>
          LET port == ToString(made.cfg.port)
              base == IF made.cfg.gpu_device = "cpu" THEN "cpu_" \o port
                      ELSE "gpu" \o made.cfg.gpu_device \o "_" \o port
              free == {n \in 2 .. (MaxTaken + 1) : (base \o "_" \o ToString(n)) \notin made.keys}
          IN /\ base \notin made.keys => made.id = base
             /\ base \in made.keys => made.id = base \o "_" \o ToString(Min(free))
             /\ made.id \notin made.keys

\* the base id and its _2 form are registered and the id returned ends in _3
C34_Witness ==
    /\ {"gpu0_8188", "gpu0_8188_2"} \subseteq made.keys
    /\ made.cfg = InstanceConfig("0", 8188, "normal")
    /\ made.id = "gpu0_8188_3"

\* ---- validation comes before the job ----
\* a handler refuses the request in this step with a validation error
Refused == answered' # answered /\ answered'.status = 400

\* C35: when a handler's synchronous validation fails the request is refused
\* with a validation error before any job is created: the job table and the
\* job records are unchanged and no closure is handed to the executor.
C35_RefusedBeforeJob ==
    [][Refused => UNCHANGED <<_jobs, jobobj, run, req, created>>]_vars

\* a request has been refused while the table holds a job whose closure runs
C35_Witness ==
    /\ answered.status = 400
    /\ answered.handler = "post_download"
    /\ Len(_jobs) = 1
    /\ Active # {}

\* ---- what start_instance, stop_instance and stop_all leave alone ----
\* thread t takes a step of a start_instance, stop_instance or stop_all call
LifecycleStep(t) ==
    th'[t].pc # th[t].pc /\ th'[t].op \in {"start", "stop", "stop_all"}

\* C36: start_instance, stop_instance and stop_all never add or delete a
\* registry entry and never change an instance's id or config; start_instance
\* and stop_instance called with an unknown id return false and change nothing.
C36_LifecycleFrame ==
    [][\A t \in Threads : LifecycleStep(t) =>
          /\ instances' = instances
          /\ \A k \in DOMAIN instances :
                /\ heap'[instances[k]].config = heap[instances[k]].config
                /\ heap'[instances[k]].instance_id = heap[instances[k]].instance_id
          /\ \A o \in DOMAIN heap \cap DOMAIN heap' : heap'[o].config = heap[o].config
          /\ (th[t].pc = "idle" /\ th'[t].op \in {"start", "stop"}
                /\ th'[t].id \notin DOMAIN instances)
               => /\ th'[t].pc = "done" /\ th'[t].ret = BoolRet(FALSE)
                  /\ heap' = heap]_vars

\* a start of an unknown id has returned false and a stop_all has returned,
\* with another instance registered
C36_Witness ==
    \E t, u \in Threads :
        /\ th[t].pc = "done" /\ th[t].op = "start" /\ th[t].ret = BoolRet(FALSE)
        /\ th[t].id \notin DOMAIN instances
        /\ th[u].pc = "done" /\ th[u].op = "stop_all" /\ th[u].ret = BoolRet(TRUE)
        /\ DOMAIN instances # {}

\* ---- who owns the live children ----
\* C37: under any interleaving of start_instance, stop_instance, stop_all and
\* remove_instance every live child is the child that the handle of a
\* registered instance refers to: no child is alive on the handle of a removed
\* instance, and none is alive after its handle's reference was overwritten.
C37_LiveChildOwned ==
    \A o \in DOMAIN heap :
        /\ heap[o].leaked = 0
        /\ is_running(heap, o) => \E k \in DOMAIN instances : instances[k] = o

C39_ChurnKeepsBroadcast ==
    [][\A k \in DOMAIN tasks :
          k \notin DOMAIN tasks'
          => \A w \in websockets' :
                (conn'[w].client = "open" /\ conn'[w].since < tasks[k].entry.n)
                => \E i \in 1 .. Len(conn'[w].recv) :
                      conn'[w].recv[i] = [n |-> tasks[k].entry.n, live |-> TRUE]]_vars
====
